---------------------------- MODULE Spec2Model ----------------------------
(***************************************************************************)
(* Model of the `measurements` crate: the SI prefix algebra (prefix.rs),   *)
(* the scalar Measurement (measurement.rs) and the RangedMeasurement       *)
(* (ranged_measurement.rs).                                                *)
(*                                                                         *)
(* Values are IEEE-754 binary64 numbers (Rust f64), modelled bit-exactly:  *)
(* a finite number is sign * m * 2^e with a 53-bit significand m held as   *)
(* a little-endian sequence of 13-bit limbs, and every operation rounds to *)
(* nearest, ties to even, with overflow to infinity, gradual underflow,    *)
(* signed zeros and NaN.                                                   *)
(***************************************************************************)
EXTENDS Integers, Sequences, FiniteSets, TLC

(***************************************************************************)
(* Natural numbers of arbitrary size: little-endian limb sequences with no *)
(* leading zero limb; <<>> is zero.                                        *)
(***************************************************************************)
LimbBase == 2^13

P2[n \in 0..13] == 2^n

IMax(x, y) == IF x >= y THEN x ELSE y

IMin(x, y) == IF x <= y THEN x ELSE y

\* the index of the highest non-zero limb of a, 0 when there is none
BTop(a) ==
    IF \A i \in 1..Len(a) : a[i] = 0 THEN 0
    ELSE CHOOSE i \in 1..Len(a) : a[i] # 0 /\ \A j \in (i + 1)..Len(a) : a[j] = 0

\* a without its leading zero limbs
BStrip(a) == SubSeq(a, 1, BTop(a))

BLimb(a, i) == IF i >= 1 /\ i <= Len(a) THEN a[i] ELSE 0

\* the carry into limb i of the limb sums t: 1 iff some lower limb generates a
\* carry that every limb between propagates
BCarryIn(t, i) ==
    IF \E j \in 1..(i - 1) : t[j] >= LimbBase /\ \A u \in (j + 1)..(i - 1) : t[u] = LimbBase - 1
    THEN 1 ELSE 0

\* the number whose limb sums are t, each at most 2 * (LimbBase - 1)
BCarry(t) == BStrip([i \in 1..Len(t) |-> (t[i] + BCarryIn(t, i)) % LimbBase])

\* a + b
BAdd(a, b) ==
    IF a = <<>> THEN b
    ELSE IF b = <<>> THEN a
    ELSE BCarry([i \in 1..(IMax(Len(a), Len(b)) + 1) |-> BLimb(a, i) + BLimb(b, i)])

\* the borrow into limb i of a - b: the borrow out of limb j reaches limb i
\* through equal limbs
BBorrowIn(a, b, i) ==
    IF \E j \in 1..(i - 1) : a[j] < BLimb(b, j) /\ \A u \in (j + 1)..(i - 1) : a[u] = BLimb(b, u)
    THEN 1 ELSE 0

\* a - b for a >= b
BSub(a, b) ==
    IF b = <<>> THEN a
    ELSE BStrip([i \in 1..Len(a) |->
             (a[i] - BLimb(b, i) - BBorrowIn(a, b, i) + LimbBase) % LimbBase])

\* -1 or 1 as limb i decides a < b or a > b
BCmpAt(a, b, i) == IF a[i] < b[i] THEN -1 ELSE 1

\* -1, 0, 1 as a < b, a = b, a > b
BCmp(a, b) ==
    IF Len(a) # Len(b) THEN (IF Len(a) < Len(b) THEN -1 ELSE 1)
    ELSE IF a = b THEN 0
    ELSE BCmpAt(a, b, CHOOSE i \in 1..Len(a) :
                          a[i] # b[i] /\ \A j \in (i + 1)..Len(a) : a[j] = b[j])

\* the number whose column sums are c, each below LimbBase^3: the sums split
\* into three limb sequences that are added
BMulCols(c) ==
    BAdd(BAdd(BStrip([k \in 1..Len(c) |-> c[k] % LimbBase]),
              BStrip([k \in 1..Len(c) |->
                  IF k = 1 THEN 0 ELSE (c[k - 1] \div LimbBase) % LimbBase])),
         BStrip([k \in 1..Len(c) |->
             IF k <= 2 THEN 0 ELSE c[k - 2] \div (LimbBase * LimbBase)]))

\* a * b for a of at most 5 limbs (a 53-bit significand)
BMul(a, b) ==
    IF a = <<>> \/ b = <<>> THEN <<>>
    ELSE BMulCols([k \in 1..(Len(a) + Len(b)) |->
             BLimb(a, 1) * BLimb(b, k) + BLimb(a, 2) * BLimb(b, k - 1)
               + BLimb(a, 3) * BLimb(b, k - 2) + BLimb(a, 4) * BLimb(b, k - 3)
               + BLimb(a, 5) * BLimb(b, k - 4)])

\* a * 2^s
BShl(a, s) ==
    IF a = <<>> THEN <<>>
    ELSE BStrip([i \in 1..(Len(a) + (s \div 13) + 1) |->
             (BLimb(a, i - (s \div 13)) % P2[13 - (s % 13)]) * P2[s % 13]
               + (BLimb(a, i - (s \div 13) - 1) \div P2[13 - (s % 13)])])

\* floor(a / 2^s)
BShr(a, s) ==
    IF s \div 13 >= Len(a) THEN <<>>
    ELSE BStrip([i \in 1..(Len(a) - (s \div 13)) |->
             (a[i + (s \div 13)] \div P2[s % 13])
               + (BLimb(a, i + (s \div 13) + 1) % P2[s % 13]) * P2[13 - (s % 13)]])

\* the number of bits of a (0 for zero)
BBits(a) ==
    IF a = <<>> THEN 0
    ELSE (Len(a) - 1) * 13
           + (CHOOSE n \in 1..13 : P2[n - 1] <= a[Len(a)] /\ a[Len(a)] < P2[n])

\* bit i (from 0) of a
BBit(a, i) == (BLimb(a, (i \div 13) + 1) \div P2[i % 13]) % 2

\* whether the s low bits of a are all zero
BLowZero(a, s) == \A i \in 0..(s - 1) : BBit(a, i) = 0

BFromInt(n) == BStrip(<<n % LimbBase, (n \div LimbBase) % LimbBase, n \div (LimbBase * LimbBase)>>)

\* the estimate of floor(r / d) from the leading limbs: at most 2 too large
\* when the top limb of d is at least LimbBase / 2
BQuotEst(d, r) ==
    IMin(LimbBase - 1, (BLimb(r, Len(d) + 1) * LimbBase + BLimb(r, Len(d))) \div d[Len(d)])

\* <<floor(r / d), r mod d>> from a candidate c >= floor(r / d) and prod = c * d
RECURSIVE BQuotTry(_, _, _, _)
BQuotTry(d, r, c, prod) ==
    IF BCmp(prod, r) <= 0 THEN <<c, BSub(r, prod)>>
    ELSE BQuotTry(d, r, c - 1, BSub(prod, d))

BQuotFrom(d, r, est) == BQuotTry(d, r, est, BMul(d, BFromInt(est)))

\* <<floor(r / d), r mod d>> for r < d * LimbBase
BQuotRem(d, r) == BQuotFrom(d, r, BQuotEst(d, r))

\* the quotient limb qr[1] put below the quotient limbs qs
BDivPush(qs, qr) == <<(<<qr[1]>> \o qs), qr[2]>>

\* one step of long division: hi is <<quotient, remainder>> of the limbs above
BDivStep(d, limb, hi) ==
    IF limb = 0 /\ hi[2] = <<>> THEN <<(<<0>> \o hi[1]), <<>>>>
    ELSE BDivPush(hi[1], BQuotRem(d, BStrip(<<limb>> \o hi[2])))

\* schoolbook long division in base LimbBase: the quotient limb-sequence and
\* the remainder of the limbs i..Len(n) of n by d; the top Len(d) - 1 limbs of n
\* are less than d
RECURSIVE BDivR(_, _, _)
BDivR(n, d, i) ==
    IF i > Len(n) - (Len(d) - 1) THEN <<<<>>, BStrip(SubSeq(n, IMax(i, 1), Len(n)))>>
    ELSE BDivStep(d, n[i], BDivR(n, d, i + 1))

BDivOut(qr) == <<BStrip(qr[1]), qr[2] # <<>>>>

\* the division of n by d, both shifted left by sh so that the top limb of d
\* is at least LimbBase / 2
BDivNorm(n, d, sh) == BDivOut(BDivR(BShl(n, sh), BShl(d, sh), 1))

\* <<floor(n / d), n mod d # 0>>, d > 0
BDivMod(n, d) == BDivNorm(n, d, 13 * Len(d) - BBits(d))

(***************************************************************************)
(* f64: [k, s, m, e].  k is "fin" (s = 0 for +, 1 for -, value m * 2^e),   *)
(* "zero", "inf" or "nan".  A normal number has a significand of exactly   *)
(* F64MantBits bits; a subnormal one has e = F64EMin and fewer bits.       *)
(***************************************************************************)
F64MantBits == 53

F64EMin == -1074

F64EMax == 971

I16Min == -32768

I16Max == 32767

FNaN == [k |-> "nan", s |-> 0, m |-> <<>>, e |-> 0]

FInf(sg) == [k |-> "inf", s |-> sg, m |-> <<>>, e |-> 0]

FZero(sg) == [k |-> "zero", s |-> sg, m |-> <<>>, e |-> 0]

FFin(sg, mm, ee) == [k |-> "fin", s |-> sg, m |-> mm, e |-> ee]

\* the f64 of significand mm and exponent ee, infinite past the largest exponent
FPack(sg, mm, ee) == IF ee > F64EMax THEN FInf(sg) ELSE FFin(sg, mm, ee)

\* the rounded significand m1 brought back to F64MantBits bits
FRenorm(sg, m1, e1) ==
    IF m1 = <<>> THEN FZero(sg)
    ELSE IF BBits(m1) > F64MantBits THEN FPack(sg, BShr(m1, 1), e1 + 1)
    ELSE FPack(sg, m1, e1)

\* the kept bits q rounded up when the first dropped bit is set (half) and
\* either a lower one is (st) or q is odd
FRoundUp(sg, q, e1, half, st) ==
    FRenorm(sg, IF half /\ (st \/ BBit(q, 0) = 1) THEN BAdd(q, <<1>>) ELSE q, e1)

\* M * 2^E rounded at the exponent e1 of the result's last place
FRoundAt(sg, M, E, sticky, e1) ==
    IF e1 - E <= 0 THEN FPack(sg, BShl(M, E - e1), e1)
    ELSE FRoundUp(sg, BShr(M, e1 - E), e1, BBit(M, e1 - E - 1) = 1,
                  sticky \/ ~BLowZero(M, e1 - E - 1))

\* the f64 nearest to (-1)^sg * (M + sticky) * 2^E, ties to even
FRound(sg, M, E, sticky) ==
    IF M = <<>> THEN FZero(sg)
    ELSE FRoundAt(sg, M, E, sticky, IMax(E + BBits(M) - F64MantBits, F64EMin))

FIsNaN(x) == x.k = "nan"

FNeg(x) == IF x.k = "nan" THEN x ELSE [x EXCEPT !.s = 1 - x.s]

SXor(a, b) == IF a = b THEN 0 ELSE 1

\* x * y
FMul(x, y) ==
    IF x.k = "nan" \/ y.k = "nan" THEN FNaN
    ELSE IF x.k = "inf" \/ y.k = "inf"
         THEN (IF x.k = "zero" \/ y.k = "zero" THEN FNaN ELSE FInf(SXor(x.s, y.s)))
    ELSE IF x.k = "zero" \/ y.k = "zero" THEN FZero(SXor(x.s, y.s))
    ELSE FRound(SXor(x.s, y.s), BMul(x.m, y.m), x.e + y.e, FALSE)

\* the quotient qr = <<floor, inexact>> scaled by 2^e, rounded
FDivRound(sg, qr, e) == FRound(sg, qr[1], e, qr[2])

\* x / y for finite non-zero x, y, the dividend scaled by 2^sc so that the
\* quotient has at least 55 bits
FDivAt(x, y, sc) == FDivRound(SXor(x.s, y.s), BDivMod(BShl(x.m, sc), y.m), x.e - y.e - sc)

\* x / y
FDiv(x, y) ==
    IF x.k = "nan" \/ y.k = "nan" THEN FNaN
    ELSE IF x.k = "inf"
         THEN (IF y.k = "inf" THEN FNaN ELSE FInf(SXor(x.s, y.s)))
    ELSE IF y.k = "inf" THEN FZero(SXor(x.s, y.s))
    ELSE IF y.k = "zero"
         THEN (IF x.k = "zero" THEN FNaN ELSE FInf(SXor(x.s, y.s)))
    ELSE IF x.k = "zero" THEN FZero(SXor(x.s, y.s))
    ELSE FDivAt(x, y, 55 + IMax(BBits(y.m) - BBits(x.m), 0))

\* the sum of magnitudes A (sign xs) and B (sign ys) of opposite signs, c
\* their comparison
FAddDiff(xs, A, ys, B, e0, c) ==
    IF c = 0 THEN FZero(0)
    ELSE FRound(IF c > 0 THEN xs ELSE ys, IF c > 0 THEN BSub(A, B) ELSE BSub(B, A), e0, FALSE)

\* the sum of the signed magnitudes A and B, both scaled by 2^e0
FAddMag(xs, A, ys, B, e0) ==
    IF xs = ys THEN FRound(xs, BAdd(A, B), e0, FALSE)
    ELSE FAddDiff(xs, A, ys, B, e0, BCmp(A, B))

\* x + y for finite non-zero x, y aligned at the exponent e0
FAddAt(x, y, e0) == FAddMag(x.s, BShl(x.m, x.e - e0), y.s, BShl(y.m, y.e - e0), e0)

\* x + y
FAdd(x, y) ==
    IF x.k = "nan" \/ y.k = "nan" THEN FNaN
    ELSE IF x.k = "inf"
         THEN (IF y.k = "inf" /\ y.s # x.s THEN FNaN ELSE x)
    ELSE IF y.k = "inf" THEN y
    ELSE IF x.k = "zero"
         THEN (IF y.k = "zero" THEN (IF x.s = y.s THEN x ELSE FZero(0)) ELSE y)
    ELSE IF y.k = "zero" THEN x
    ELSE IF x.e - y.e > 120 THEN x
    ELSE IF y.e - x.e > 120 THEN y
    ELSE FAddAt(x, y, IMin(x.e, y.e))

\* x - y
FSub(x, y) == FAdd(x, FNeg(y))

\* |x| < |y| for x, y neither NaN nor zero
FMagLt(x, y) ==
    IF x.k = "inf" THEN FALSE
    ELSE IF y.k = "inf" THEN TRUE
    ELSE x.e < y.e \/ (x.e = y.e /\ BCmp(x.m, y.m) < 0)

FSign(x) == IF x.k = "zero" THEN 0 ELSE IF x.s = 0 THEN 1 ELSE -1

\* x == y
FEq(x, y) ==
    /\ x.k # "nan" /\ y.k # "nan"
    /\ \/ (x.k = "zero" /\ y.k = "zero")
       \/ x = y

\* x < y
FLt(x, y) ==
    /\ x.k # "nan" /\ y.k # "nan"
    /\ \/ FSign(x) < FSign(y)
       \/ (FSign(x) = 1 /\ FSign(y) = 1 /\ FMagLt(x, y))
       \/ (FSign(x) = -1 /\ FSign(y) = -1 /\ FMagLt(y, x))

\* x > y
FGt(x, y) == FLt(y, x)

\* the f64 of an integer literal, |n| < 2^31
FromInt(n) ==
    IF n = 0 THEN FZero(0)
    ELSE FRound(IF n < 0 THEN 1 ELSE 0, BFromInt(IF n < 0 THEN -n ELSE n), 0, FALSE)

\* the f64 nearest to 10^k, 0 <= k <= 31: exact up to 10^22, and one rounding
\* of an exact product above
RECURSIVE Exact10(_)
Exact10(k) == IF k <= 9 THEN FromInt(10^k) ELSE FMul(FromInt(10^9), Exact10(k - 9))

\* the f64 of the decimal literal d * 10^k, |k| <= 22: both factors are exact,
\* so one correctly rounded operation gives the nearest f64
Dec(d, k) ==
    IF k >= 0 THEN FMul(FromInt(d), Exact10(k)) ELSE FDiv(FromInt(d), Exact10(-k))

\* f64::MAX and the least positive subnormal
F64Max == FFin(0, BSub(BShl(<<1>>, F64MantBits), <<1>>), F64EMax)

F64MinSub == FFin(0, <<1>>, F64EMin)

\* 5^k as an integer
RECURSIVE Pow5(_)
Pow5(k) == IF k <= 13 THEN BFromInt(5^k) ELSE BMul(BFromInt(5^13), Pow5(k - 13))

\* mm * 2^sh >= p, exactly
GeScaled(mm, sh, p) ==
    IF sh >= 0 THEN BCmp(BShl(mm, sh), p) >= 0 ELSE BCmp(mm, BShl(p, -sh)) >= 0

\* mm * 2^ee >= 10^k for p = 5^|k|
GeP10With(mm, ee, k, p) ==
    IF k >= 0 THEN GeScaled(mm, ee - k, p)
    ELSE (ee - k >= 0 \/ BBits(BMul(mm, p)) > k - ee)

\* mm * 2^ee >= 10^k, exactly
GeP10(mm, ee, k) == GeP10With(mm, ee, k, Pow5(IF k >= 0 THEN k ELSE -k))

\* floor(log10 x) from the estimate k0 of the binary exponent, right or one off
FloorFrom(x, k0) ==
    IF GeP10(x.m, x.e, k0 + 1) THEN k0 + 1
    ELSE IF GeP10(x.m, x.e, k0) THEN k0
    ELSE k0 - 1

\* floor(log10 x) for finite x > 0
FloorLog10(x) == FloorFrom(x, ((BBits(x.m) + x.e - 1) * 30103) \div 100000)

\* x * (1 + 2^-z) >= 10^k
NearAt(x, k, z) == GeP10(BAdd(BShl(x.m, z), x.m), x.e - z, k)

\* x is at least 10^k, or below it by so little that log10 x is within 2.5 ulp
\* of k: a libm log10 accurate to 2 ulp may return k
NearP10(x, k) == NearAt(x, k, 50 - BBits(BFromInt(k - 1)))

\* the truncations of log10 x for finite x > 0 with fl = floor(log10 x): below
\* 1 that is fl + 1, or fl when the logarithm rounds to the integer fl
Log10From(x, fl) ==
    IF fl < 0 THEN {fl, fl + 1}
    ELSE IF NearP10(x, fl + 1) THEN {fl, fl + 1}
    ELSE {fl}

\* f64::log10 followed by the saturating cast `as i16`: the set of values the
\* build can give.  NaN casts to 0; log10 of a negative is NaN, of a zero -inf,
\* of +inf +inf; a finite logarithm is truncated toward zero.
Log10AsI16(x) ==
    IF x.k = "nan" THEN {0}
    ELSE IF x.k = "zero" THEN {I16Min}
    ELSE IF x.s = 1 THEN {0}
    ELSE IF x.k = "inf" THEN {I16Max}
    ELSE Log10From(x, FloorLog10(x))

\* f64::powi: the square-and-multiply loop of compiler-builtins,
\*   loop { if pow & 1 != 0 { mul *= a } pow >>= 1; if pow == 0 { break } a *= a }
RECURSIVE PowiLoop(_, _, _)
PowiLoop(a, n, r) ==
    IF n = 0 THEN r
    ELSE PowiLoop(IF n \div 2 = 0 THEN a ELSE FMul(a, a), n \div 2,
                  IF n % 2 = 1 THEN FMul(r, a) ELSE r)

\* the reciprocal of the product for a negative exponent
PowiRecip(b, r) == IF b < 0 THEN FDiv(FromInt(1), r) ELSE r

Powi(a, b) == PowiRecip(b, PowiLoop(a, IF b < 0 THEN -b ELSE b, FromInt(1)))

(***************************************************************************)
(* prefix.rs                                                               *)
(***************************************************************************)
Prefixes == {"Tera", "Giga", "Mega", "Kilo", "None", "Milli", "Micro", "Nano", "Femto"}

\* the outcome of a call that panicked, where a Prefix is returned otherwise
PanicPrefix == "PANIC"

\* i16 arithmetic wraps (release build); none of the sums below leaves the range
WrapI16(n) == ((n - I16Min) % (I16Max - I16Min + 1)) + I16Min

\* Prefix::get_exp_value
get_exp_value(p) ==
    CASE p = "Tera"  -> 12
      [] p = "Giga"  -> 9
      [] p = "Mega"  -> 6
      [] p = "Kilo"  -> 3
      [] p = "None"  -> 0
      [] p = "Milli" -> -3
      [] p = "Micro" -> -6
      [] p = "Nano"  -> -9
      [] p = "Femto" -> -12

\* from_exp_value with the Tera arm written `e > 12`, so that 12 falls to Giga
from_exp_value_gt(exp) ==
    IF exp > 12 THEN <<"Tera", WrapI16(exp - 12)>>
    ELSE IF exp >= 9 THEN <<"Giga", WrapI16(exp - 9)>>
    ELSE IF exp >= 6 THEN <<"Mega", WrapI16(exp - 6)>>
    ELSE IF exp >= 3 THEN <<"Kilo", WrapI16(exp - 3)>>
    ELSE IF exp >= 0 THEN <<"None", WrapI16(exp)>>
    ELSE IF exp >= -3 THEN <<"Milli", WrapI16(exp + 3)>>
    ELSE IF exp >= -6 THEN <<"Micro", WrapI16(exp + 6)>>
    ELSE IF exp >= -9 THEN <<"Nano", WrapI16(exp + 9)>>
    ELSE <<"Femto", WrapI16(exp + 12)>>

\* Prefix::from_exp_value: <<prefix, remainder>>; the last arm is the panic
from_exp_value(exp) ==
    IF exp >= 12 THEN <<"Tera", WrapI16(exp - get_exp_value("Tera"))>>
    ELSE IF exp >= 9 /\ exp < 12 THEN <<"Giga", WrapI16(exp - get_exp_value("Giga"))>>
    ELSE IF exp >= 6 /\ exp < 9 THEN <<"Mega", WrapI16(exp - get_exp_value("Mega"))>>
    ELSE IF exp >= 3 /\ exp < 6 THEN <<"Kilo", WrapI16(exp - get_exp_value("Kilo"))>>
    ELSE IF exp >= 0 /\ exp < 3 THEN <<"None", WrapI16(exp - get_exp_value("None"))>>
    ELSE IF exp >= -3 /\ exp < 0 THEN <<"Milli", WrapI16(exp - get_exp_value("Milli"))>>
    ELSE IF exp >= -6 /\ exp < -3 THEN <<"Micro", WrapI16(exp - get_exp_value("Micro"))>>
    ELSE IF exp >= -9 /\ exp < -6 THEN <<"Nano", WrapI16(exp - get_exp_value("Nano"))>>
    ELSE IF exp < -9 THEN <<"Femto", WrapI16(exp - get_exp_value("Femto"))>>
    ELSE <<PanicPrefix, 0>>

\* the match without its panic arm: the saturated prefix is returned
ExactPrefixSaturating(pr) == pr[1]

\* the match of Mul::mul and Div::div: (p, 0) => p, _ => panic
ExactPrefix(pr) == IF pr[2] = 0 THEN pr[1] ELSE PanicPrefix

\* impl Mul for Prefix
PrefixMul(p, rhs) == ExactPrefix(from_exp_value(WrapI16(get_exp_value(p) + get_exp_value(rhs))))

\* impl Div for Prefix
PrefixDiv(p, rhs) == ExactPrefix(from_exp_value(WrapI16(get_exp_value(p) - get_exp_value(rhs))))

\* get_conversion_factor with the exponents subtracted the other way round
get_conversion_factor_swapped(p, other) ==
    Powi(FromInt(10), get_exp_value(other) - get_exp_value(p))

\* Prefix::get_conversion_factor: 10f64.powi(exp as i32)
get_conversion_factor(p, other) ==
    Powi(FromInt(10), get_exp_value(p) - get_exp_value(other))

(***************************************************************************)
(* measurement.rs: a Measurement is [value: f64, prefix: Prefix]           *)
(***************************************************************************)
Measurement(v, p) == [value |-> v, prefix |-> p]

\* convert_to that scales the value and keeps the old prefix
convert_to_keep(m, pfx) ==
    Measurement(FMul(m.value, get_conversion_factor(m.prefix, pfx)), m.prefix)

\* Measurement::convert_to
convert_to(m, pfx) ==
    Measurement(FMul(m.value, get_conversion_factor(m.prefix, pfx)), pfx)

M0 == Measurement(FZero(0), "None")

\* Measurement::nice, lines 68-72: the pair (e, s)
NiceE(m) ==
    IF FGt(m.value, FromInt(1)) THEN m.value ELSE FDiv(FromInt(1), m.value)

NiceS(m) == IF FGt(m.value, FromInt(1)) THEN 1 ELSE -1

\* Measurement::nice, line 78: the conversion to the prefix product np, or
\* that the product panicked
nice_convert(m, np) ==
    IF np = PanicPrefix THEN [panic |-> TRUE, m |-> M0]
    ELSE [panic |-> FALSE, m |-> convert_to(m, np)]

\* nice with the early return at exp < 4
nice_lt4(m, exp) ==
    IF exp < 4 THEN [panic |-> FALSE, m |-> m]
    ELSE nice_convert(m, PrefixMul(from_exp_value(WrapI16(exp * NiceS(m)))[1], m.prefix))

\* Measurement::nice from line 74 on, exp being the value of
\* `e.log10() as i16`: what it returns, or that the prefix product panicked
nice(m, exp) ==
    IF exp < 3 THEN [panic |-> FALSE, m |-> m]
    ELSE nice_convert(m, PrefixMul(from_exp_value(WrapI16(exp * NiceS(m)))[1], m.prefix))

\* add keeping the left operand's prefix
add_left(self, rhs) ==
    Measurement(FAdd(self.value, convert_to(rhs, self.prefix).value), self.prefix)

\* impl Add for Measurement
add(self, rhs) ==
    Measurement(FAdd(convert_to(self, rhs.prefix).value, rhs.value), rhs.prefix)

\* impl Sub for Measurement
sub(self, rhs) ==
    Measurement(FSub(convert_to(self, rhs.prefix).value, rhs.value), rhs.prefix)

\* impl PartialEq for Measurement
eq(self, other) == FEq(convert_to(self, other.prefix).value, other.value)

\* partial_cmp without the NaN arm
partial_cmp_total(self, other) ==
    LET m1 == convert_to(self, other.prefix).value
        m2 == other.value
    IN  IF FEq(m1, m2) THEN "Equal"
        ELSE IF FLt(m1, m2) THEN "Less"
        ELSE "Greater"

\* partial_cmp, lines 122-131: the ordering of the two values m1 and m2;
\* "None" is Option::None
cmp_values(m1, m2) ==
    IF FIsNaN(m1) \/ FIsNaN(m2) THEN "None"
    ELSE IF FEq(m1, m2) THEN "Equal"
    ELSE IF FLt(m1, m2) THEN "Less"
    ELSE "Greater"

\* impl PartialOrd for Measurement
partial_cmp(self, other) == cmp_values(convert_to(self, other.prefix).value, other.value)

\* impl Mul<I> for Measurement: multiplication by a scalar
scale(self, rhs) == Measurement(FMul(self.value, rhs), self.prefix)

(***************************************************************************)
(* percentage.rs and ranged_measurement.rs: a RangedMeasurement is         *)
(* [min: f64, max: f64, prefix: Prefix]; an Option<Percentage> is          *)
(* [some: BOOLEAN, v: f64]                                                 *)
(***************************************************************************)
NoStep == [some |-> FALSE, v |-> FZero(0)]

SomeStep(x) == [some |-> TRUE, v |-> x]

\* RangedMeasurement::new
RangedMeasurement(lo, hi, st, p) ==
    [min |-> lo, max |-> hi, step |-> SomeStep(st), prefix |-> p]

\* RangedMeasurement::new_sym
new_sym(v, st, p) == [min |-> FNeg(v), max |-> v, step |-> SomeStep(st), prefix |-> p]

\* RangedMeasurement::new_sym_stepless
new_sym_stepless(v, p) == [min |-> FNeg(v), max |-> v, step |-> NoStep, prefix |-> p]

\* impl From<Measurement> for RangedMeasurement
from_measurement(m) == new_sym_stepless(m.value, m.prefix)

NoPercentage == [some |-> FALSE, v |-> FZero(0)]

SomePercentage(x) == [some |-> TRUE, v |-> x]

\* Percentage::new_const accepts the value: it panics when value < 0.0 or
\* value > 1.0
new_const_ok(x) == ~(FLt(x, FZero(0)) \/ FGt(x, FromInt(1)))

\* p.unwrap_or(percentage!(1.0)).get_value()
get_value(pc0) == IF pc0.some THEN pc0.v ELSE FromInt(1)

\* RangedMeasurement::min and max
min(r) == Measurement(r.min, r.prefix)

max(r) == Measurement(r.max, r.prefix)

\* is_in_range with both comparisons non-strict
is_in_range_closed(r, other, pc0) ==
    /\ partial_cmp(other, scale(min(r), get_value(pc0))) \in {"Greater", "Equal"}
    /\ partial_cmp(other, scale(max(r), get_value(pc0))) \in {"Less", "Equal"}

\* is_in_range with `||` between the two comparisons
is_in_range_or(r, other, pc0) ==
    \/ partial_cmp(other, scale(min(r), get_value(pc0))) = "Greater"
    \/ partial_cmp(other, scale(max(r), get_value(pc0))) = "Less"

\* RangedMeasurement::is_in_range
is_in_range(r, other, pc0) ==
    /\ partial_cmp(other, scale(min(r), get_value(pc0))) = "Greater"
    /\ partial_cmp(other, scale(max(r), get_value(pc0))) = "Less"

\* RangedMeasurement::convert_to, lines 123-129: the fields scaled by cf
rm_scaled(r, pfx, cf) ==
    [min |-> FMul(r.min, cf), max |-> FMul(r.max, cf),
     step |-> IF r.step.some THEN SomeStep(FMul(r.step.v, cf)) ELSE NoStep,
     prefix |-> pfx]

\* RangedMeasurement::convert_to
rm_convert_to(r, pfx) == rm_scaled(r, pfx, get_conversion_factor(r.prefix, pfx))

\* `==` of Option<f64>
OptEq(x, y) == IF x.some /\ y.some THEN FEq(x.v, y.v) ELSE x.some = y.some

\* `==` of the tuples (min, max, step)
TripleEq(t, r) == FEq(t.min, r.min) /\ FEq(t.max, r.max) /\ OptEq(t.step, r.step)

\* RangedMeasurement equality that compares min and max only
rm_eq_nostep(self, other) ==
    LET t == IF self.prefix = other.prefix THEN self ELSE rm_convert_to(self, other.prefix)
    IN  FEq(t.min, other.min) /\ FEq(t.max, other.max)

\* impl PartialEq for RangedMeasurement
rm_eq(self, other) ==
    TripleEq(IF self.prefix = other.prefix THEN self ELSE rm_convert_to(self, other.prefix),
             other)

(***************************************************************************)
(* M1d and M2d: an ndarray buffer of f64 and a prefix.  dim is the shape   *)
(* (<<n>> for Array1, <<rows, cols>> for Array2) and values the elements   *)
(* in row-major order.  M1d and M2d share the bodies of convert_to, mean   *)
(* and eq word for word, so one operator models both.                      *)
(***************************************************************************)
\* == that compares the elements bit for bit
nd_eq_bits(x, y) == x.dim = y.dim /\ x.values = y.values

\* ndarray's ==: the same shape and every pair of elements equal as f64
nd_eq(x, y) ==
    /\ x.dim = y.dim
    /\ \A i \in 1..Len(x.values) : FEq(x.values[i], y.values[i])

\* convert_to that scales the elements and keeps the old prefix
arr_scaled_keep(self, pfx, cf) ==
    IF FEq(cf, FromInt(1)) THEN self
    ELSE [dim |-> self.dim,
          values |-> [i \in 1..Len(self.values) |-> FMul(self.values[i], cf)],
          prefix |-> self.prefix]

\* the body of convert_to after conversion_factor is computed: self.clone()
\* when it is 1.0, else every element times the factor under the new prefix
arr_scaled(self, pfx, cf) ==
    IF FEq(cf, FromInt(1)) THEN self
    ELSE [dim |-> self.dim,
          values |-> [i \in 1..Len(self.values) |-> FMul(self.values[i], cf)],
          prefix |-> pfx]

\* M1d::convert_to, M2d::convert_to
arr_convert_to(self, pfx) ==
    arr_scaled(self, pfx, get_conversion_factor(self.prefix, pfx))

\* PartialEq for M1d, M2d
arr_eq(self, other) ==
    IF self.prefix # other.prefix THEN nd_eq(arr_convert_to(self, other.prefix), other)
    ELSE nd_eq(self, other)

\* ndarray's sum of fewer than eight elements: a left fold from 0.0
RECURSIVE nd_sum(_, _)
nd_sum(xs, acc) ==
    IF Len(xs) = 0 THEN acc ELSE nd_sum(Tail(xs), FAdd(acc, Head(xs)))

\* ndarray's mean of a non-empty buffer: sum() / len
nd_mean(xs) == FDiv(nd_sum(xs, FZero(0)), FromInt(Len(xs)))

\* mean without the test for an empty buffer: 0.0 / 0.0
arr_mean_unguarded(self) ==
    [some |-> TRUE, m |-> Measurement(nd_mean(self.values), self.prefix)]

\* M1d::mean, M2d::mean: None when ndarray's mean is None (no elements)
arr_mean(self) ==
    IF Len(self.values) = 0 THEN [some |-> FALSE, m |-> M0]
    ELSE [some |-> TRUE, m |-> Measurement(nd_mean(self.values), self.prefix)]

\* the k-th lane of a 2-D buffer along axis ax
Lane(x, ax, k) ==
    [i \in 1..x.dim[ax + 1] |->
        x.values[IF ax = 0 THEN (i - 1) * x.dim[2] + k ELSE (k - 1) * x.dim[2] + i]]

\* M2d::mean_axis.  ndarray's mean_axis reads the length of the axis first,
\* which panics for an axis index out of bounds, and is None for length zero
mean_axis(self, ax) ==
    IF ax >= 2
    THEN [panic |-> TRUE, some |-> FALSE, arr |-> [dim |-> <<0>>, values |-> <<>>, prefix |-> "None"]]
    ELSE IF self.dim[ax + 1] = 0
    THEN [panic |-> FALSE, some |-> FALSE, arr |-> [dim |-> <<0>>, values |-> <<>>, prefix |-> "None"]]
    ELSE [panic |-> FALSE, some |-> TRUE,
          arr |-> [dim |-> <<self.dim[2 - ax]>>,
                   values |-> [k \in 1..self.dim[2 - ax] |-> nd_mean(Lane(self, ax, k))],
                   prefix |-> self.prefix]]

\* concatenate![axis, x, y] under prefix pfx: the unwrap panics when the axis
\* is out of bounds or the shapes differ off the axis
nd_concatenate(ax, x, y, pfx) ==
    IF ax >= 2 \/ x.dim[2 - ax] # y.dim[2 - ax]
    THEN [panic |-> TRUE, arr |-> [dim |-> <<0>>, values |-> <<>>, prefix |-> "None"]]
    ELSE IF ax = 0
    THEN [panic |-> FALSE,
          arr |-> [dim |-> <<x.dim[1] + y.dim[1], x.dim[2]>>,
                   values |-> x.values \o y.values, prefix |-> pfx]]
    ELSE [panic |-> FALSE,
          arr |-> [dim |-> <<x.dim[1], x.dim[2] + y.dim[2]>>,
                   values |-> [n \in 1..(x.dim[1] * (x.dim[2] + y.dim[2])) |->
                       IF ((n - 1) % (x.dim[2] + y.dim[2])) < x.dim[2]
                       THEN x.values[((n - 1) \div (x.dim[2] + y.dim[2])) * x.dim[2]
                                     + ((n - 1) % (x.dim[2] + y.dim[2])) + 1]
                       ELSE y.values[((n - 1) \div (x.dim[2] + y.dim[2])) * y.dim[2]
                                     + (((n - 1) % (x.dim[2] + y.dim[2])) - x.dim[2]) + 1]],
                   prefix |-> pfx]]

\* concatenate_axis that joins other's buffer as it is
concatenate_axis_raw(self, other, ax) == nd_concatenate(ax, self, other, self.prefix)

\* M2d::concatenate_axis
concatenate_axis(self, other, ax) ==
    nd_concatenate(ax, self,
                   IF self.prefix # other.prefix THEN arr_convert_to(other, self.prefix)
                   ELSE other,
                   self.prefix)

(***************************************************************************)
(* State: one call of the library.  pc is "call" before the operation op   *)
(* has run on its inputs and "ret" after it; the out* variables hold what  *)
(* it returned and panicked whether it panicked instead.                   *)
(***************************************************************************)
VARIABLES pc, op, ex, tp, q, a, b, rm, pct, outP, outI, outF, outM, outB, outO, panicked,
          rm2, u, w, axis, outR, outA, outNone, buf, hits, wk

vars == <<pc, op, ex, tp, q, a, b, rm, pct, outP, outI, outF, outM, outB, outO, panicked,
          rm2, u, w, axis, outR, outA, outNone, buf, hits, wk>>

inputs == <<op, ex, tp, q, a, b, rm, pct, rm2, u, w, axis>>

\* the results of the operations on ranges and arrays, and the buffer, the
\* per-element write counts and the workers of a running par_mapv_inplace
outs2 == <<outR, outA, outNone, buf, hits, wk>>

R0 == RangedMeasurement(FZero(0), FZero(0), FromInt(1), "None")

A0 == [dim |-> <<0>>, values |-> <<>>, prefix |-> "None"]

NoOut ==
    /\ outP = "None" /\ outI = 0 /\ outF = FZero(0) /\ outM = M0
    /\ outB = FALSE /\ outO = "None" /\ panicked = FALSE
    /\ outR = R0 /\ outA = A0 /\ outNone = FALSE
    /\ buf = <<>> /\ hits = <<>> /\ wk = <<>>

\* the inputs an operation does not read
NoPrefixIn == tp = "None" /\ q = "None"

NoMeasIn == a = M0 /\ b = M0

NoRangeIn == rm = R0 /\ rm2 = R0 /\ pct = NoPercentage

NoArrIn == u = A0 /\ w = A0 /\ axis = 0

(***************************************************************************)
(* The prefix algebra: every i16 exponent and every pair of prefixes.      *)
(***************************************************************************)
InitPrefix ==
    /\ pc = "call" /\ NoOut /\ NoArrIn /\ NoMeasIn /\ NoRangeIn
    /\ \/ op = "from_exp_value" /\ ex \in I16Min..I16Max /\ NoPrefixIn
       \/ op \in {"mul", "div", "get_conversion_factor"}
            /\ ex = 0 /\ tp \in Prefixes /\ q \in Prefixes

CallFromExpValue ==
    /\ pc = "call" /\ op = "from_exp_value"
    /\ outP' = from_exp_value(ex)[1]
    /\ outI' = from_exp_value(ex)[2]
    /\ panicked' = (from_exp_value(ex)[1] = PanicPrefix)
    /\ pc' = "ret"
    /\ UNCHANGED <<inputs, outs2, outF, outM, outB, outO>>

CallPrefixMul ==
    /\ pc = "call" /\ op = "mul"
    /\ outP' = PrefixMul(tp, q)
    /\ panicked' = (PrefixMul(tp, q) = PanicPrefix)
    /\ pc' = "ret"
    /\ UNCHANGED <<inputs, outs2, outI, outF, outM, outB, outO>>

CallPrefixDiv ==
    /\ pc = "call" /\ op = "div"
    /\ outP' = PrefixDiv(tp, q)
    /\ panicked' = (PrefixDiv(tp, q) = PanicPrefix)
    /\ pc' = "ret"
    /\ UNCHANGED <<inputs, outs2, outI, outF, outM, outB, outO>>

CallConversionFactor ==
    /\ pc = "call" /\ op = "get_conversion_factor"
    /\ outF' = get_conversion_factor(tp, q)
    /\ pc' = "ret"
    /\ UNCHANGED <<inputs, outs2, outP, outI, outM, outB, outO, panicked>>

NextPrefix ==
    \/ CallFromExpValue
    \/ CallPrefixMul
    \/ CallPrefixDiv
    \/ CallConversionFactor

SpecPrefix == InitPrefix /\ [][NextPrefix]_vars

Returned(o) == pc = "ret" /\ op = o

CanonicalExps == {get_exp_value(p) : p \in Prefixes}

Abs(n) == IF n < 0 THEN -n ELSE n

(***************************************************************************)
(* C3.  Prefix multiply(p, q) returns the prefix whose exponent is the sum *)
(* of the two exponents, and divide(p, q) the one whose exponent is their  *)
(* difference, whenever that exponent is one of the nine canonical ones;   *)
(* for every other pair the call panics and returns no prefix.             *)
(***************************************************************************)
CombinedExp == IF op = "mul" THEN get_exp_value(tp) + get_exp_value(q)
               ELSE get_exp_value(tp) - get_exp_value(q)

C3_PrefixComposition ==
    (pc = "ret" /\ op \in {"mul", "div"}) =>
        IF CombinedExp \in CanonicalExps
        THEN /\ ~panicked
             /\ outP \in Prefixes
             /\ get_exp_value(outP) = CombinedExp
        ELSE panicked /\ outP = PanicPrefix

\* Tera * Tera has panicked, and Mega / Kilo has returned Kilo
C3_Witness ==
    \/ (Returned("mul") /\ tp = "Tera" /\ q = "Tera" /\ panicked)
    \/ (Returned("div") /\ tp = "Mega" /\ q = "Kilo" /\ outP = "Kilo")

(***************************************************************************)
(* C4.  For every i16 exponent exp, from_exp_value(exp) returns (p, r)     *)
(* with r = exp - exponent_of(p); r = 0 iff exp is one of the nine         *)
(* canonical exponents; every exp >= 12 maps to Tera and every exp < -9 to *)
(* Femto; the catch-all panic arm is never taken.                          *)
(***************************************************************************)
C4_FromExpValue ==
    Returned("from_exp_value") =>
        /\ ~panicked
        /\ outP \in Prefixes
        /\ outI = ex - get_exp_value(outP)
        /\ (outI = 0) <=> (ex \in CanonicalExps)
        /\ (ex >= 12) => (outP = "Tera")
        /\ (ex < -9) => (outP = "Femto")

\* the two ends of the i16 range have saturated, with non-zero remainders
C4_Witness ==
    /\ Returned("from_exp_value")
    /\ \/ (ex = I16Max /\ outP = "Tera" /\ outI = I16Max - 12)
       \/ (ex = I16Min /\ outP = "Femto" /\ outI = I16Min + 12)

(***************************************************************************)
(* C5.  The prefix returned by from_exp_value(exp) is the nearest known    *)
(* prefix: none of the nine prefixes has an exponent strictly closer to    *)
(* exp than the returned one.                                              *)
(***************************************************************************)
C5_NearestPrefix ==
    Returned("from_exp_value") =>
        \A p \in Prefixes :
            Abs(ex - get_exp_value(p)) >= Abs(ex - get_exp_value(outP))

(***************************************************************************)
(* C8.  As claimed: conversion_factor(p, q) is the reciprocal of           *)
(* conversion_factor(q, p), for all prefix pairs.                          *)
(***************************************************************************)
C8_ReciprocalAllPairs ==
    Returned("get_conversion_factor") =>
        FEq(outF, FDiv(FromInt(1), get_conversion_factor(q, tp)))

(***************************************************************************)
(* C8, amended.  With k = exponent_of(p) - exponent_of(q),                 *)
(* conversion_factor(p, q) is the f64 nearest to 10^k when k >= 0 and 1.0  *)
(* divided by the f64 nearest to 10^-k when k < 0.  So                     *)
(* conversion_factor(p, p) = 1.0, and conversion_factor(p, q) is           *)
(* 1.0 / conversion_factor(q, p) whenever k <= 0.                          *)
(***************************************************************************)
C8_ConversionFactor ==
    Returned("get_conversion_factor") =>
        LET k == get_exp_value(tp) - get_exp_value(q)
        IN  /\ (k >= 0) => (outF = Exact10(k))
            /\ (k < 0) => (outF = FDiv(FromInt(1), Exact10(-k)))
            /\ (tp = q) => (outF = FromInt(1))
            /\ (k <= 0) => FEq(outF, FDiv(FromInt(1), get_conversion_factor(q, tp)))

\* Femto -> Tera has returned a factor below one, the reciprocal of Tera -> Femto
C8_Witness ==
    /\ Returned("get_conversion_factor")
    /\ tp = "Femto" /\ q = "Tera"
    /\ FLt(outF, FromInt(1))
    /\ outF = FDiv(FromInt(1), Exact10(24))

(***************************************************************************)
(* Measurement::nice on special values, on decimal literals d * 10^k of    *)
(* both signs, and on the f64 just below each power of ten.                *)
(***************************************************************************)
MaxDigit == 3

MaxDec == 15

Specials == {FNaN, FInf(0), FInf(1), FZero(0), FZero(1), F64Max, F64MinSub}

\* the f64 just below the positive normal x, x not a power of two
Pred(x) == FFin(0, BSub(x.m, <<1>>), x.e)

NiceValues ==
    Specials
    \cup {Dec(d, k) : d \in 1..MaxDigit, k \in -MaxDec..MaxDec}
    \cup {Dec(-d, k) : d \in 1..MaxDigit, k \in -MaxDec..MaxDec}
    \cup {Pred(Dec(1, k)) : k \in 1..MaxDec}

InitNice ==
    /\ pc = "call" /\ NoOut /\ NoArrIn /\ NoRangeIn /\ NoPrefixIn
    /\ op = "nice" /\ ex = 0 /\ b = M0
    /\ a \in {Measurement(v, p) : v \in NiceValues, p \in Prefixes}

\* outI keeps the value of `e.log10() as i16`
CallNice ==
    /\ pc = "call" /\ op = "nice"
    /\ \E exp \in Log10AsI16(NiceE(a)) :
          \E r \in {nice(a, exp)} :
             /\ outI' = exp
             /\ outM' = r.m
             /\ panicked' = r.panic
    /\ pc' = "ret"
    /\ UNCHANGED <<inputs, outs2, outP, outF, outB, outO>>

NextNice == CallNice

SpecNice == InitNice /\ [][NextNice]_vars

(***************************************************************************)
(* C1.  As claimed: for every Measurement m whose value is a number,       *)
(* m.nice() returns, and m is equal to what it returns (the assertion of   *)
(* the test equality_check, `a == a.nice()`).                              *)
(***************************************************************************)
C1_NiceEqual ==
    (Returned("nice") /\ ~FIsNaN(a.value)) => (~panicked /\ eq(a, outM))

(***************************************************************************)
(* C2.  nice() on (v, q) takes e = v if v > 1.0 else 1/v, sign = +1 if     *)
(* v > 1.0 else -1, and exp = log10(e) cast to i16: for finite e > 0 that  *)
(* is floor(log10 e), up to the accuracy of log10 just below a power of    *)
(* ten.  If exp < 3 it returns (v, q) unchanged; otherwise it returns      *)
(* (v, q) converted to multiply(prefix_for_exponent(exp * sign), q), and   *)
(* panics where that product panics.  (1000, Kilo) becomes (1.0, Mega),    *)
(* (10000, Kilo) becomes (10.0, Mega), (0.001, Kilo) becomes (1.0, None).  *)
(***************************************************************************)
C2_NiceAlgorithm ==
    Returned("nice") =>
        LET gt   == FGt(a.value, FromInt(1))
            e    == IF gt THEN a.value ELSE FDiv(FromInt(1), a.value)
            sign == IF gt THEN 1 ELSE -1
            exp  == outI
            np   == PrefixMul(from_exp_value(exp * sign)[1], a.prefix)
        IN  /\ (e.k = "fin" /\ e.s = 0) =>
                  /\ exp >= 0
                  /\ ~GeP10(e.m, e.e, exp + 1)
                  /\ GeP10(e.m, e.e, exp) \/ NearP10(e, exp)
            /\ IF exp < 3 THEN ~panicked /\ outM = a
               ELSE IF np \in Prefixes THEN ~panicked /\ outM = convert_to(a, np)
               ELSE panicked
            /\ (a = Measurement(Dec(1, 3), "Kilo"))
                  => (~panicked /\ outM = Measurement(FromInt(1), "Mega"))
            /\ (a = Measurement(Dec(1, 4), "Kilo"))
                  => (~panicked /\ outM = Measurement(FromInt(10), "Mega"))
            /\ (a = Measurement(Dec(1, -3), "Kilo"))
                  => (~panicked /\ outM = Measurement(FromInt(1), "None"))

\* (0.001, Kilo) has become (1.0, None): exp = 3, sign = -1
C2_Witness ==
    /\ Returned("nice")
    /\ a = Measurement(Dec(1, -3), "Kilo")
    /\ outI = 3
    /\ outM = Measurement(FromInt(1), "None")

(***************************************************************************)
(* Measurement::convert_to, and the conversion of its result back to the   *)
(* prefix of the original.                                                 *)
(***************************************************************************)
MaxConvDec == 2

ConvValues ==
    Specials
    \cup {Dec(d, k) : d \in 1..MaxDigit, k \in -MaxConvDec..MaxConvDec}
    \cup {Dec(-d, k) : d \in 1..MaxDigit, k \in -MaxConvDec..MaxConvDec}

InitConv ==
    /\ pc = "call" /\ NoOut /\ NoArrIn /\ NoRangeIn
    /\ op = "convert_to" /\ ex = 0 /\ q = "None" /\ b = M0
    /\ tp \in Prefixes
    /\ a \in {Measurement(v, p) : v \in ConvValues, p \in Prefixes}

CallConvertTo ==
    /\ pc = "call" /\ op = "convert_to"
    /\ outM' = convert_to(a, tp)
    /\ pc' = "ret"
    /\ UNCHANGED <<inputs, outs2, outP, outI, outF, outB, outO, panicked>>

\* the result converted to m.prefix()
CallConvertBack ==
    /\ pc = "ret" /\ op = "convert_to"
    /\ outM' = convert_to(outM, a.prefix)
    /\ pc' = "back"
    /\ UNCHANGED <<inputs, outs2, outP, outI, outF, outB, outO, panicked>>

NextConv ==
    \/ CallConvertTo
    \/ CallConvertBack

SpecConv == InitConv /\ [][NextConv]_vars

FNormal(x) == x.k = "fin" /\ BBits(x.m) = F64MantBits

\* |x - y| <= 2 ulp of y, for normal y
Within2Ulp(x, y) ==
    LET d == FSub(x, y)
    IN  d.k = "zero" \/ (d.k = "fin" /\ ~FMagLt(FFin(0, <<1>>, y.e + 1), d))

MaxInt == 1

PairValues ==
    {FNaN, FInf(0), FInf(1), FromInt(125)}
    \cup {FromInt(n) : n \in -MaxInt..MaxInt}

PairInputs == {Measurement(v, p) : v \in PairValues, p \in Prefixes}

InitArith ==
    /\ pc = "call" /\ NoOut /\ NoArrIn /\ NoRangeIn /\ NoPrefixIn
    /\ op \in {"add", "sub"} /\ ex = 0
    /\ a \in PairInputs /\ b \in PairInputs

CallAdd ==
    /\ pc = "call" /\ op = "add"
    /\ outM' = add(a, b)
    /\ pc' = "ret"
    /\ UNCHANGED <<inputs, outs2, outP, outI, outF, outB, outO, panicked>>

CallSub ==
    /\ pc = "call" /\ op = "sub"
    /\ outM' = sub(a, b)
    /\ pc' = "ret"
    /\ UNCHANGED <<inputs, outs2, outP, outI, outF, outB, outO, panicked>>

NextArith ==
    \/ CallAdd
    \/ CallSub

SpecArith == InitArith /\ [][NextArith]_vars

(***************************************************************************)
(* C6.  a + b and a - b have b's prefix, and their value is a's value      *)
(* converted to b's prefix plus, respectively minus, b's value.  So        *)
(* 1 Milli + 125 Micro is 1125 Micro (equal to 1.125 Milli), and           *)
(* 1 Milli - 1 Milli is 0 Milli.                                           *)
(***************************************************************************)
C6_AddSub ==
    (pc = "ret" /\ op \in {"add", "sub"}) =>
        LET conv == FMul(a.value, get_conversion_factor(a.prefix, b.prefix))
        IN  /\ outM.prefix = b.prefix
            /\ (op = "add") => (outM.value = FAdd(conv, b.value))
            /\ (op = "sub") => (outM.value = FSub(conv, b.value))
            /\ (op = "add" /\ a = Measurement(FromInt(1), "Milli")
                           /\ b = Measurement(FromInt(125), "Micro"))
                  => /\ outM = Measurement(FromInt(1125), "Micro")
                     /\ eq(outM, Measurement(Dec(1125, -3), "Milli"))
            /\ (op = "sub" /\ a = Measurement(FromInt(1), "Milli")
                           /\ b = Measurement(FromInt(1), "Milli"))
                  => outM = Measurement(FZero(0), "Milli")

\* 1 Milli + 125 Micro has returned 1125 Micro: the prefix of the right operand,
\* which is not the left one's
C6_Witness ==
    /\ Returned("add")
    /\ a = Measurement(FromInt(1), "Milli")
    /\ b = Measurement(FromInt(125), "Micro")
    /\ outM = Measurement(FromInt(1125), "Micro")

InitOrd ==
    /\ pc = "call" /\ NoOut /\ NoArrIn /\ NoRangeIn /\ NoPrefixIn
    /\ op \in {"partial_cmp", "eq"} /\ ex = 0
    /\ a \in PairInputs /\ b \in PairInputs

CallPartialCmp ==
    /\ pc = "call" /\ op = "partial_cmp"
    /\ outO' = partial_cmp(a, b)
    /\ pc' = "ret"
    /\ UNCHANGED <<inputs, outs2, outP, outI, outF, outM, outB, panicked>>

CallEq ==
    /\ pc = "call" /\ op = "eq"
    /\ outB' = eq(a, b)
    /\ pc' = "ret"
    /\ UNCHANGED <<inputs, outs2, outP, outI, outF, outM, outO, panicked>>

NextOrd ==
    \/ CallPartialCmp
    \/ CallEq

SpecOrd == InitOrd /\ [][NextOrd]_vars

(***************************************************************************)
(* C9.  partial_cmp(a, b) converts a to b's prefix and returns None if and *)
(* only if the value of a or of b is NaN; otherwise it returns the one of  *)
(* Less, Equal, Greater that is the order of the converted value of a      *)
(* against b's value.  1 Milli is Greater than 1 Micro, and 1 Micro Less   *)
(* than 1 Milli.                                                           *)
(***************************************************************************)
C9_PartialCmp ==
    Returned("partial_cmp") =>
        LET m1 == FMul(a.value, get_conversion_factor(a.prefix, b.prefix))
        IN  /\ outO \in {"None", "Less", "Equal", "Greater"}
            /\ (outO = "None") <=> (FIsNaN(a.value) \/ FIsNaN(b.value))
            /\ (outO = "Less") <=> FLt(m1, b.value)
            /\ (outO = "Equal") <=> FEq(m1, b.value)
            /\ (outO = "Greater") <=> FGt(m1, b.value)
            /\ (a = Measurement(FromInt(1), "Milli")
                  /\ b = Measurement(FromInt(1), "Micro")) => outO = "Greater"
            /\ (a = Measurement(FromInt(1), "Micro")
                  /\ b = Measurement(FromInt(1), "Milli")) => outO = "Less"

\* a NaN on the right only has made the comparison None, and 1 Milli against
\* 1 Micro has returned Greater
C9_Witness ==
    /\ Returned("partial_cmp")
    /\ \/ (FIsNaN(b.value) /\ a.value = FromInt(1) /\ outO = "None")
       \/ (a = Measurement(FromInt(1), "Milli")
             /\ b = Measurement(FromInt(1), "Micro") /\ outO = "Greater")

(***************************************************************************)
(* RangedMeasurement::is_in_range: ranges with ends among the multiples of *)
(* ten (inverted and empty ones included), candidates among the multiples  *)
(* of five, 1, -1, NaN and +inf in every prefix, and every Percentage that *)
(* new_const accepts among NaN and the multiples of one half.              *)
(***************************************************************************)
MaxTens == 1

MaxFives == 2

RangePrefixes == {"Micro"}

RangeEnds == {FromInt(10 * n) : n \in -MaxTens..MaxTens}

CandValues ==
    {FromInt(5 * n) : n \in -MaxFives..MaxFives}
    \cup {FromInt(1), FromInt(-1), FNaN, FInf(0)}

Percentages ==
    {NoPercentage}
    \cup {SomePercentage(x) :
            x \in {y \in {FNaN} \cup {FDiv(FromInt(n), FromInt(2)) : n \in -1..3} :
                     new_const_ok(y)}}

\* the ranges of all four constructors
RangeInputs ==
    {RangedMeasurement(lo, hi, FromInt(1), p) :
        lo \in RangeEnds, hi \in RangeEnds, p \in RangePrefixes}
    \cup {new_sym(v, FromInt(1), p) : v \in RangeEnds, p \in RangePrefixes}
    \cup {new_sym_stepless(v, p) : v \in RangeEnds, p \in RangePrefixes}
    \cup {from_measurement(Measurement(v, p)) : v \in RangeEnds, p \in RangePrefixes}

InitRange ==
    /\ pc = "call" /\ NoOut /\ NoArrIn /\ NoPrefixIn
    /\ op = "is_in_range" /\ ex = 0 /\ b = M0
    /\ rm \in RangeInputs /\ rm2 = R0
    /\ a \in {Measurement(v, p) : v \in CandValues, p \in Prefixes}
    /\ pct \in Percentages

CallIsInRange ==
    /\ pc = "call" /\ op = "is_in_range"
    /\ outB' = is_in_range(rm, a, pct)
    /\ pc' = "ret"
    /\ UNCHANGED <<inputs, outs2, outP, outI, outF, outM, outO, panicked>>

NextRange == CallIsInRange

SpecRange == InitRange /\ [][NextRange]_vars

(***************************************************************************)
(* C10.  r.is_in_range(c, s), with s defaulting to 1.0, is true if and     *)
(* only if c, converted to r's prefix, is strictly greater than r.min * s  *)
(* and strictly less than r.max * s.  It is false when c is exactly        *)
(* r.min() * s or r.max() * s, true for 1 Micro in [-10, 10] Micro and     *)
(* false for 1 Kilo in the same range.                                     *)
(***************************************************************************)
C10_IsInRange ==
    Returned("is_in_range") =>
        LET sc == IF pct.some THEN pct.v ELSE FromInt(1)
            c  == FMul(a.value, get_conversion_factor(a.prefix, rm.prefix))
            lo == FMul(rm.min, sc)
            hi == FMul(rm.max, sc)
            r10 == RangedMeasurement(FromInt(-10), FromInt(10), FromInt(1), "Micro")
        IN  /\ outB <=> (FGt(c, lo) /\ FLt(c, hi))
            /\ (a = Measurement(lo, rm.prefix) \/ a = Measurement(hi, rm.prefix))
                  => ~outB
            /\ (rm = r10 /\ a = Measurement(FromInt(1), "Micro")
                  /\ pct \in {NoPercentage, SomePercentage(Dec(5, -1))}) => outB
            /\ (rm = r10 /\ a = Measurement(FromInt(1), "Kilo")) => ~outB

\* 1 Micro has been found inside [-10, 10] Micro, and the end 5 Micro of the
\* range scaled by one half outside it
C10_Witness ==
    /\ Returned("is_in_range")
    /\ rm = RangedMeasurement(FromInt(-10), FromInt(10), FromInt(1), "Micro")
    /\ \/ (a = Measurement(FromInt(1), "Micro") /\ pct = NoPercentage /\ outB)
       \/ (a = Measurement(FromInt(5), "Micro")
             /\ pct = SomePercentage(Dec(5, -1)) /\ ~outB)


(***************************************************************************)
(* C17.  For every RangedMeasurement with min > max (an inverted range,    *)
(* among them new_sym, new_sym_stepless and from(Measurement) of a         *)
(* negative value), is_in_range returns false for every candidate in every *)
(* prefix and for every Percentage in [0, 1], the default included.        *)
(***************************************************************************)
C17_InvertedRange ==
    (/\ Returned("is_in_range")
     /\ FGt(rm.min, rm.max)
     /\ pct.some => (~FLt(pct.v, FZero(0)) /\ ~FGt(pct.v, FromInt(1)) /\ ~FIsNaN(pct.v)))
        => ~outB

\* the candidate 5 Micro, between the ends of the inverted range
\* from(-10 Micro) = [10, -10] Micro, has been found outside it
C17_Witness ==
    /\ Returned("is_in_range")
    /\ rm = from_measurement(Measurement(FromInt(-10), "Micro"))
    /\ FGt(rm.min, rm.max)
    /\ a = Measurement(FromInt(5), "Micro")
    /\ pct = SomePercentage(Dec(5, -1))
    /\ ~outB


(***************************************************************************)
(* RangedMeasurement equality and convert_to: pairs of ranges built by     *)
(* new_sym and new_sym_stepless, and r.convert_to(p) compared with r on    *)
(* either side of `==`.                                                    *)
(***************************************************************************)
MaxEqDec == 2

\* ranges built by new_sym and new_sym_stepless from the powers of ten, 3 and
\* NaN, with the steps 1 and 0.001, in three prefixes
EqRanges ==
    LET vs == {Dec(1, k) : k \in -MaxEqDec..MaxEqDec} \cup {FromInt(3), FNaN}
        ps == {"Micro", "Milli", "Tera"}
    IN  {new_sym(v, st, p) : v \in vs, st \in {FromInt(1), Dec(1, -3)}, p \in ps}
        \cup {new_sym_stepless(v, p) : v \in vs, p \in ps}

InitRangeEq ==
    /\ pc = "call" /\ NoOut /\ NoArrIn /\ NoMeasIn
    /\ ex = 0 /\ q = "None" /\ pct = NoPercentage
    /\ rm \in EqRanges
    /\ \/ op = "rm_eq" /\ rm2 \in EqRanges /\ tp = "None"
       \/ op = "rm_convert_to" /\ rm2 = R0 /\ tp \in Prefixes

\* a == b
CallRangeEq ==
    /\ pc = "call" /\ op = "rm_eq"
    /\ outB' = rm_eq(rm, rm2)
    /\ pc' = "ret"
    /\ UNCHANGED <<inputs, outP, outI, outF, outM, outO, panicked,
                   outR, outA, outNone, buf, hits, wk>>

\* r.convert_to(p)
CallRangeConvertTo ==
    /\ pc = "call" /\ op = "rm_convert_to"
    /\ outR' = rm_convert_to(rm, tp)
    /\ pc' = "ret"
    /\ UNCHANGED <<inputs, outP, outI, outF, outM, outB, outO, panicked,
                   outA, outNone, buf, hits, wk>>

\* r == r.convert_to(p)
CallRangeEqFwd ==
    /\ pc = "ret" /\ op = "rm_convert_to"
    /\ outB' = rm_eq(rm, outR)
    /\ pc' = "fwd"
    /\ UNCHANGED <<inputs, outP, outI, outF, outM, outO, panicked,
                   outR, outA, outNone, buf, hits, wk>>

\* r.convert_to(p) == r
CallRangeEqBack ==
    /\ pc = "ret" /\ op = "rm_convert_to"
    /\ outB' = rm_eq(outR, rm)
    /\ pc' = "bwd"
    /\ UNCHANGED <<inputs, outP, outI, outF, outM, outO, panicked,
                   outR, outA, outNone, buf, hits, wk>>

NextRangeEq ==
    \/ CallRangeEq
    \/ CallRangeConvertTo
    \/ CallRangeEqFwd
    \/ CallRangeEqBack

SpecRangeEq == InitRangeEq /\ [][NextRangeEq]_vars

\* no NaN among min, max and the step of r
NoNaNRange(r) == ~FIsNaN(r.min) /\ ~FIsNaN(r.max) /\ ~(r.step.some /\ FIsNaN(r.step.v))

(***************************************************************************)
(* C11 as stated.  Two ranges a and b are equal iff, a converted to b's    *)
(* prefix, their min, max and step (and whether a step is present) are     *)
(* equal; hence for every range r (here: every r without a NaN) and every  *)
(* prefix p, r == r.convert_to(p) and r.convert_to(p) == r.                *)
(***************************************************************************)
C11_EqualToConverted ==
    (pc \in {"fwd", "bwd"} /\ NoNaNRange(rm)) => outB

(***************************************************************************)
(* C11 as amended.  a == b iff, with cf the conversion factor from a's     *)
(* prefix to b's, a.min * cf == b.min, a.max * cf == b.max and the steps   *)
(* are both absent or both present with a.step * cf == b.step, in f64.     *)
(* r == r.convert_to(p) holds exactly when r holds no NaN;                 *)
(* r.convert_to(p) == r holds when moreover p is r's prefix.  new_sym(100, *)
(* 1, Micro) equals new_sym(0.1, 0.001, Milli).                            *)
(***************************************************************************)
C11_RangeEq ==
    /\ Returned("rm_eq") =>
          LET cf == get_conversion_factor(rm.prefix, rm2.prefix)
          IN  /\ outB <=> /\ FEq(FMul(rm.min, cf), rm2.min)
                          /\ FEq(FMul(rm.max, cf), rm2.max)
                          /\ rm.step.some = rm2.step.some
                          /\ rm.step.some => FEq(FMul(rm.step.v, cf), rm2.step.v)
              /\ (/\ rm = new_sym(Dec(1, 2), FromInt(1), "Micro")
                  /\ rm2 = new_sym(Dec(1, -1), Dec(1, -3), "Milli")) => outB
    /\ pc = "fwd" => (outB <=> NoNaNRange(rm))
    /\ (pc = "bwd" /\ tp = rm.prefix) => (outB <=> NoNaNRange(rm))

\* new_sym(100, 1, Micro) has been found equal to new_sym(0.1, 0.001, Milli)
C11_Witness ==
    /\ Returned("rm_eq")
    /\ rm = new_sym(Dec(1, 2), FromInt(1), "Micro")
    /\ rm2 = new_sym(Dec(1, -1), Dec(1, -3), "Milli")
    /\ outB


(***************************************************************************)
(* The array wrappers: convert_to followed by ==, mean, mean_axis and      *)
(* concatenate_axis on buffers of at most MaxElems elements, next to       *)
(* convert_to of a Measurement and of a RangedMeasurement.                 *)
(***************************************************************************)
MaxElems == 4

\* the shapes of Array2 with at most MaxElems elements
Shapes2 == {d \in (0..MaxElems) \X (0..MaxElems) : d[1] * d[2] <= MaxElems}

\* the 1-D and 2-D buffers over the element values vs, as wrappers of prefix p
Wrappers(dims, vs, p) ==
    UNION {[dim : {d}, values : [1..(IF Len(d) = 1 THEN d[1] ELSE d[1] * d[2]) -> vs],
            prefix : {p}] : d \in dims}

\* the buffer of shape d holding from + 1, from + 2, ... in row-major order
Counting(d, from, p) ==
    [dim |-> d, values |-> [i \in 1..(d[1] * d[2]) |-> FromInt(from + i)], prefix |-> p]

InitArr ==
    /\ pc = "call" /\ NoOut /\ ex = 0 /\ q = "None" /\ b = M0
    /\ rm2 = R0 /\ pct = NoPercentage
    /\ \/ /\ op = "arr_convert_to" /\ a = M0 /\ rm = R0 /\ w = A0 /\ axis = 0
          /\ tp \in Prefixes
          /\ \E p \in {"Milli", "Tera"} :
                u \in Wrappers({<<n>> : n \in 0..MaxElems} \cup Shapes2,
                               {FromInt(1), FNaN}, p)
                      \cup {[dim |-> <<3>>, values |-> <<FromInt(1), FromInt(2), FromInt(3)>>,
                             prefix |-> p],
                            [dim |-> <<2, 2>>,
                             values |-> <<FZero(1), Dec(1, -1), F64Max, F64MinSub>>,
                             prefix |-> p]}
       \/ /\ op = "arr_mean" /\ a = M0 /\ rm = R0 /\ w = A0 /\ axis = 0 /\ tp = "None"
          /\ u \in Wrappers({<<n>> : n \in 0..MaxElems} \cup Shapes2,
                            {FromInt(1), FromInt(3), FNaN}, "Milli")
       \/ /\ op = "mean_axis" /\ a = M0 /\ rm = R0 /\ w = A0 /\ tp = "None"
          /\ axis \in 0..2
          /\ u \in Wrappers(Shapes2, {FromInt(1), FromInt(3), FNaN}, "Milli")
       \/ /\ op = "concatenate_axis" /\ a = M0 /\ rm = R0 /\ tp = "None"
          /\ axis \in 0..2
          /\ u \in {Counting(d, 0, "Milli") : d \in Shapes2}
          /\ w \in {Counting(d, 10, p) : d \in Shapes2, p \in {"Milli", "Micro"}}
       \/ /\ op = "convert_to" /\ rm = R0 /\ NoArrIn
          /\ tp \in Prefixes
          /\ a \in {Measurement(v, p) : v \in {FromInt(1), FNaN}, p \in Prefixes}
       \/ /\ op = "rm_convert_to" /\ a = M0 /\ NoArrIn
          /\ tp \in Prefixes
          /\ rm \in {new_sym(FromInt(1), FromInt(1), p) : p \in Prefixes}
                    \cup {new_sym_stepless(FromInt(1), p) : p \in Prefixes}

\* u.convert_to(tp)
CallArrConvertTo ==
    /\ pc = "call" /\ op = "arr_convert_to"
    /\ outA' = arr_convert_to(u, tp)
    /\ pc' = "ret"
    /\ UNCHANGED <<inputs, outR, outNone, buf, hits, wk, outP, outI, outF, outM, outB, outO,
                   panicked>>

\* u.convert_to(tp) == u
CallArrEqBack ==
    /\ pc = "ret" /\ op = "arr_convert_to"
    /\ outB' = arr_eq(outA, u)
    /\ pc' = "bwd"
    /\ UNCHANGED <<inputs, outs2, outP, outI, outF, outM, outO, panicked>>

\* u.mean()
CallArrMean ==
    /\ pc = "call" /\ op = "arr_mean"
    /\ \E r \in {arr_mean(u)} : outNone' = ~r.some /\ outM' = r.m
    /\ pc' = "ret"
    /\ UNCHANGED <<inputs, outR, outA, buf, hits, wk, outP, outI, outF, outB, outO, panicked>>

\* u.mean_axis(Axis(axis))
CallMeanAxis ==
    /\ pc = "call" /\ op = "mean_axis"
    /\ \E r \in {mean_axis(u, axis)} :
          /\ panicked' = r.panic
          /\ outNone' = (~r.panic /\ ~r.some)
          /\ outA' = r.arr
    /\ pc' = "ret"
    /\ UNCHANGED <<inputs, outR, buf, hits, wk, outP, outI, outF, outM, outB, outO>>

\* u.concatenate_axis(&w, Axis(axis))
CallConcatenateAxis ==
    /\ pc = "call" /\ op = "concatenate_axis"
    /\ \E r \in {concatenate_axis(u, w, axis)} : panicked' = r.panic /\ outA' = r.arr
    /\ pc' = "ret"
    /\ UNCHANGED <<inputs, outR, outNone, buf, hits, wk, outP, outI, outF, outM, outB, outO>>

NextArr ==
    \/ CallArrConvertTo
    \/ CallArrEqBack
    \/ CallArrMean
    \/ CallMeanAxis
    \/ CallConcatenateAxis
    \/ CallConvertTo
    \/ CallRangeConvertTo

SpecArr == InitArr /\ [][NextArr]_vars

\* no element of the buffer is NaN
NoNaNArr(x) == \A i \in 1..Len(x.values) : ~FIsNaN(x.values[i])

(***************************************************************************)
(* C12 as stated: for every array wrapper a, a.convert_to(a.prefix()) is   *)
(* equal to a under the wrapper's ==.                                      *)
(***************************************************************************)
C12_OwnPrefixEqual ==
    (pc = "bwd" /\ op = "arr_convert_to" /\ tp = u.prefix) => outB

(***************************************************************************)
(* C12: for an array wrapper a (1-D or 2-D), a.convert_to(a.prefix()) is   *)
(* equal to a under the wrapper's == exactly when a holds no NaN element.  *)
(* Whenever the conversion factor is 1.0 the returned duplicate has a's    *)
(* shape and, position by position, the very value that multiplying the    *)
(* element by the factor gives.  [1, 2, 3] Milli converted to Micro is     *)
(* [1000, 2000, 3000].                                                     *)
(***************************************************************************)
C12_OwnPrefix ==
    /\ (pc = "bwd" /\ op = "arr_convert_to" /\ tp = u.prefix) => (outB <=> NoNaNArr(u))
    /\ (pc \in {"ret", "bwd"} /\ op = "arr_convert_to"
          /\ FEq(get_conversion_factor(u.prefix, tp), FromInt(1)))
       => /\ outA.dim = u.dim
          /\ Len(outA.values) = Len(u.values)
          /\ \A i \in 1..Len(u.values) :
                outA.values[i] = FMul(u.values[i], get_conversion_factor(u.prefix, tp))
    /\ (pc = "ret" /\ op = "arr_convert_to" /\ tp = "Micro"
          /\ u = [dim |-> <<3>>, values |-> <<FromInt(1), FromInt(2), FromInt(3)>>,
                  prefix |-> "Milli"])
       => outA.values = <<FromInt(1000), FromInt(2000), FromInt(3000)>>

\* a 2 x 2 buffer with -0.0, 0.1, f64::MAX and the least subnormal, converted
\* to its own prefix and compared with the original
C12_Witness ==
    /\ pc = "bwd" /\ op = "arr_convert_to" /\ tp = "Tera" /\ u.prefix = "Tera"
    /\ u.dim = <<2, 2>> /\ u.values = <<FZero(1), Dec(1, -1), F64Max, F64MinSub>>
    /\ outA = u /\ outB


\* the number of elements of the buffer equal to v
CountOf(x, v) == Cardinality({i \in 1..Len(x.values) : x.values[i] = v})

(***************************************************************************)
(* C13: mean() on an array wrapper (1-D or 2-D) returns None if and only   *)
(* if the buffer has no element, whatever its shape.  For a non-empty      *)
(* buffer it returns a Measurement with the wrapper's prefix whose value   *)
(* is the sum of the elements divided by their number: for a buffer of k   *)
(* ones and m threes exactly (k + 3m) / (k + m) rounded once, and NaN as   *)
(* soon as an element is NaN.  mean([1, 3]) is 2.                          *)
(***************************************************************************)
C13_Mean ==
    Returned("arr_mean") =>
        /\ outNone <=> (Len(u.values) = 0)
        /\ outNone => outM = M0
        /\ ~outNone =>
              /\ outM.prefix = u.prefix
              /\ IF NoNaNArr(u)
                 THEN outM.value = FDiv(FromInt(CountOf(u, FromInt(1))
                                                + 3 * CountOf(u, FromInt(3))),
                                        FromInt(Len(u.values)))
                 ELSE FIsNaN(outM.value)
        /\ u.values = <<FromInt(1), FromInt(3)>> => outM.value = FromInt(2)

\* the mean of a 0 x 2 buffer
C13_Witness ==
    /\ Returned("arr_mean") /\ u.dim = <<0, 2>> /\ u.values = <<>>
    /\ outNone /\ outM = M0


(***************************************************************************)
(* C14: mean_axis(axis) on a 2-D wrapper never fails: it returns None when *)
(* the axis does not exist (index 2 or more) or has length zero, and       *)
(* otherwise a 1-D wrapper with the 2-D wrapper's prefix holding, for each *)
(* lane along the axis, the mean of the lane.                              *)
(***************************************************************************)
C14_MeanAxis ==
    Returned("mean_axis") =>
        /\ ~panicked
        /\ outNone <=> (axis >= 2 \/ u.dim[axis + 1] = 0)
        /\ ~outNone =>
              /\ outA.prefix = u.prefix
              /\ outA.dim = <<u.dim[2 - axis]>>
              /\ \A k \in 1..u.dim[2 - axis] :
                    outA.values[k] = nd_mean(Lane(u, axis, k))


\* the element in row i, column j (from 0) of a 2-D buffer
At(x, i, j) == x.values[i * x.dim[2] + j + 1]

\* the element of w in row i, column j re-expressed in the prefix of u
Joined(i, j) ==
    IF w.prefix = u.prefix THEN At(w, i, j)
    ELSE FMul(At(w, i, j), get_conversion_factor(w.prefix, u.prefix))

\* the result of u.concatenate_axis(&w, Axis(axis)) for shapes that agree off the axis
JoinedAlongAxis ==
    (Returned("concatenate_axis") /\ axis < 2 /\ u.dim[2 - axis] = w.dim[2 - axis]) =>
        /\ ~panicked
        /\ outA.prefix = u.prefix
        /\ outA.dim = IF axis = 0 THEN <<u.dim[1] + w.dim[1], u.dim[2]>>
                      ELSE <<u.dim[1], u.dim[2] + w.dim[2]>>
        /\ Len(outA.values) = Len(u.values) + Len(w.values)
        /\ \A i \in 0..(outA.dim[1] - 1) : \A j \in 0..(outA.dim[2] - 1) :
              At(outA, i, j) =
                 IF axis = 0
                 THEN (IF i < u.dim[1] THEN At(u, i, j) ELSE Joined(i - u.dim[1], j))
                 ELSE (IF j < u.dim[2] THEN At(u, i, j) ELSE Joined(i, j - u.dim[2]))
        /\ (u.dim = <<2, 1>> /\ w.dim = <<2, 1>> /\ w.prefix = "Milli" /\ axis = 1)
           => outA.values = <<FromInt(1), FromInt(11), FromInt(2), FromInt(12)>>
        /\ (u.dim = <<2, 1>> /\ w.dim = <<2, 1>> /\ w.prefix = "Micro" /\ axis = 0)
           => outA.values = <<FromInt(1), FromInt(2),
                              FMul(FromInt(11), Dec(1, -3)), FMul(FromInt(12), Dec(1, -3))>>

(***************************************************************************)
(* C15: for 2-D wrappers a and b whose shapes agree off the axis (0 or 1), *)
(* a.concatenate_axis(b, axis) does not panic and returns a wrapper with   *)
(* a's prefix whose buffer holds a's elements followed along the axis by   *)
(* b's elements, each multiplied by the factor from b's prefix to a's when *)
(* the prefixes differ; it has a.len() + b.len() elements, and the call    *)
(* leaves a and b as they were.                                            *)
(***************************************************************************)
C15_ConcatenateAxis ==
    /\ []JoinedAlongAxis
    /\ [][op = "concatenate_axis" => (u' = u /\ w' = w)]_vars

\* [[1, 2], [3, 4]] Milli joined along axis 1 with [[11, 12], [13, 14]] Micro
C15_Witness ==
    /\ Returned("concatenate_axis") /\ axis = 1 /\ ~panicked
    /\ u.dim = <<2, 2>> /\ w.dim = <<2, 2>> /\ u.prefix = "Milli" /\ w.prefix = "Micro"
    /\ outA.dim = <<2, 4>> /\ outA.prefix = "Milli"
    /\ At(outA, 0, 1) = FromInt(2) /\ At(outA, 1, 0) = FromInt(3)
    /\ At(outA, 1, 3) = FMul(FromInt(14), Dec(1, -3))


(***************************************************************************)
(* C18: convert_to(p) of a Measurement, a RangedMeasurement and a 1-D or   *)
(* 2-D array wrapper returns a value whose prefix is p.  For the wrappers  *)
(* the duplicate returned when the factor is 1.0 has the source's prefix,  *)
(* which is p: get_exp_value is injective on the prefixes and the factor   *)
(* between two prefixes is 1.0 only when they are the same prefix.         *)
(***************************************************************************)
C18_ResultPrefix ==
    /\ Returned("convert_to") => outM.prefix = tp
    /\ Returned("rm_convert_to") => outR.prefix = tp
    /\ (pc = "ret" /\ op = "arr_convert_to") =>
          /\ outA.prefix = tp
          /\ FEq(get_conversion_factor(u.prefix, tp), FromInt(1)) <=> (u.prefix = tp)
          /\ u.prefix = tp => outA = u
          /\ Len(u.values) = 0 =>
                \A p \in Prefixes :
                    /\ FEq(get_conversion_factor(p, tp), FromInt(1)) => p = tp
                    /\ get_exp_value(p) = get_exp_value(tp) => p = tp

\* [1, 2, 3] Milli converted to Milli: the duplicate
C18_Witness ==
    /\ pc = "ret" /\ op = "arr_convert_to" /\ tp = "Milli"
    /\ u = [dim |-> <<3>>, values |-> <<FromInt(1), FromInt(2), FromInt(3)>>, prefix |-> "Milli"]
    /\ outA = u


(***************************************************************************)
(* convert_to of an array wrapper at the level of par_mapv_inplace: the    *)
(* factor is computed, then up to MaxWorkers workers each repeatedly take  *)
(* an element no worker was handed yet, read it and store its product with *)
(* the factor, in any interleaving; the call returns after all have        *)
(* joined.  hits counts how often an element was handed out, and wk holds  *)
(* for each worker the index it works on (0 when idle) and the value read. *)
(***************************************************************************)
MaxParLen == 3

MaxWorkers == 2

InitPar ==
    /\ pc = "call" /\ NoOut /\ NoMeasIn /\ NoRangeIn /\ ex = 0 /\ q = "None"
    /\ w = A0 /\ axis = 0
    /\ op = "par_convert_to"
    /\ tp \in {"Milli", "Micro", "Kilo"}
    /\ u \in Wrappers({<<n>> : n \in 0..MaxParLen} \cup {<<1, MaxParLen>>, <<0, 1>>},
                      {FromInt(1), FromInt(3)}, "Milli")

\* let conversion_factor = ...; the duplicate when it is 1.0, else the map starts
StartConvertTo ==
    /\ pc = "call" /\ op = "par_convert_to"
    /\ \E cf \in {get_conversion_factor(u.prefix, tp)} :
          /\ outF' = cf
          /\ IF FEq(cf, FromInt(1))
             THEN pc' = "ret" /\ outA' = u /\ UNCHANGED <<buf, hits, wk>>
             ELSE /\ pc' = "map"
                  /\ buf' = u.values
                  /\ hits' = [i \in 1..Len(u.values) |-> 0]
                  /\ \E n \in 1..MaxWorkers :
                        wk' = [k \in 1..n |-> [i |-> 0, x |-> FZero(0)]]
                  /\ UNCHANGED outA
    /\ UNCHANGED <<inputs, outR, outNone, outP, outI, outM, outB, outO, panicked>>

\* a worker that may be handed any element, handed out before or not
WorkerTakeAny(k) ==
    /\ pc = "map" /\ wk[k].i = 0
    /\ \E i \in 1..Len(buf) :
          /\ hits' = [hits EXCEPT ![i] = hits[i] + 1]
          /\ wk' = [wk EXCEPT ![k] = [i |-> i, x |-> buf[i]]]
    /\ UNCHANGED <<inputs, pc, buf, outR, outA, outNone, outP, outI, outF, outM, outB, outO,
                   panicked>>

\* an idle worker is handed the &mut of an element not handed out yet and reads it
WorkerTake(k) ==
    /\ pc = "map" /\ wk[k].i = 0
    /\ \E i \in 1..Len(buf) :
          /\ hits[i] = 0
          /\ hits' = [hits EXCEPT ![i] = hits[i] + 1]
          /\ wk' = [wk EXCEPT ![k] = [i |-> i, x |-> buf[i]]]
    /\ UNCHANGED <<inputs, pc, buf, outR, outA, outNone, outP, outI, outF, outM, outB, outO,
                   panicked>>

\* the worker stores x * conversion_factor in its element
WorkerWrite(k) ==
    /\ pc = "map" /\ wk[k].i # 0
    /\ buf' = [buf EXCEPT ![wk[k].i] = FMul(wk[k].x, outF)]
    /\ wk' = [wk EXCEPT ![k] = [i |-> 0, x |-> FZero(0)]]
    /\ UNCHANGED <<inputs, pc, hits, outR, outA, outNone, outP, outI, outF, outM, outB, outO,
                   panicked>>

\* every element was handed out and every worker is done: Self { values, prefix: pfx }
JoinConvertTo ==
    /\ pc = "map"
    /\ \A i \in 1..Len(buf) : hits[i] >= 1
    /\ \A k \in 1..Len(wk) : wk[k].i = 0
    /\ outA' = [dim |-> u.dim, values |-> buf, prefix |-> tp]
    /\ pc' = "ret"
    /\ UNCHANGED <<inputs, buf, hits, wk, outR, outNone, outP, outI, outF, outM, outB, outO,
                   panicked>>

NextPar ==
    \/ StartConvertTo
    \/ \E k \in 1..Len(wk) : WorkerTake(k)
    \/ \E k \in 1..Len(wk) : WorkerWrite(k)
    \/ JoinConvertTo

SpecPar == InitPar /\ [][NextPar]_vars

\* some worker is working on element i
Held(i) == \E k \in 1..Len(wk) : wk[k].i = i

\* what holds of the buffer during and after the parallel map
MapInvariant ==
    /\ pc = "map" =>
          /\ Len(buf) = Len(u.values)
          /\ \A i \in 1..Len(buf) :
                /\ hits[i] <= 1
                /\ buf[i] = IF hits[i] = 1 /\ ~Held(i) THEN FMul(u.values[i], outF)
                            ELSE u.values[i]
          /\ \A k \in 1..Len(wk) :
                wk[k].i # 0 =>
                   /\ hits[wk[k].i] = 1
                   /\ wk[k].x = u.values[wk[k].i]
                   /\ \A j \in 1..Len(wk) : wk[j].i = wk[k].i => j = k
    /\ pc = "ret" =>
          /\ outF = get_conversion_factor(u.prefix, tp)
          /\ outA.dim = u.dim
          /\ Len(outA.values) = Len(u.values)
          /\ \A i \in 1..Len(u.values) :
                outA.values[i] = FMul(u.values[i], outF)
          /\ ~FEq(outF, FromInt(1)) => \A i \in 1..Len(u.values) : hits[i] = 1

(***************************************************************************)
(* C16: the rescaling inside the array convert_to does not depend on the   *)
(* schedule.  The factor is computed once, before the map, and stays the   *)
(* same; for any number of workers and any interleaving of their reads and *)
(* writes every element is handed out and multiplied exactly once, an      *)
(* element of the buffer is at any time its input or its input times the   *)
(* factor, and the buffer returned is the sequential map of x * factor     *)
(* over the input.                                                         *)
(***************************************************************************)
C16_ScheduleIndependent ==
    /\ []MapInvariant
    /\ [][pc = "map" => outF' = outF]_vars

\* two workers, each holding one element of [1, 3, 3] Milli on its way to Micro,
\* the third element already written
C16_Witness ==
    /\ pc = "map" /\ tp = "Micro" /\ Len(wk) = 2
    /\ u.values = <<FromInt(1), FromInt(3), FromInt(3)>>
    /\ wk[1].i = 3 /\ wk[2].i = 1
    /\ buf = <<FromInt(1), FromInt(3000), FromInt(3)>>

=============================================================================
